---- MODULE Spec2Model ----
(***************************************************************************)
(* A model of the Ollama interception proxy: the admission checker         *)
(* (admission/admission.go), the stream collector and the request handler  *)
(* (proxy/proxy.go) and the audit logger (logger/logger.go).               *)
(*                                                                         *)
(* Strings whose content the code inspects (verdicts, reasons) are         *)
(* sequences of one-character strings.  Durations are Go int64 values,     *)
(* kept as four 16-bit limbs (least significant first) so that the         *)
(* arithmetic wraps at 2^64 as it does in the program.                     *)
(***************************************************************************)
EXTENDS Integers, Sequences, FiniteSets, TLC

(***************************************************************************)
(* Bounds of the model.                                                    *)
(***************************************************************************)
\* The largest "small" MaxRetries value a configuration is drawn with.
SmallRetries == 2
\* One large MaxRetries value, so that large retry indexes are exercised.
LargeRetries == 36
\* The most lines of a response written to a collector directly.
MaxLines == 2
\* The most lines of a backend response in a handled request.
BackendLines == 1
\* The last value of the clock that concurrent LogRequest calls read.
MaxClock == 3

(***************************************************************************)
(* Go int64 arithmetic on limbs.                                           *)
(***************************************************************************)
Base == 2^16

Zero64 == <<0, 0, 0, 0>>

\* 1 << k on an int64: a shift count of 64 or more yields 0.
Shl1(k) ==
    IF k >= 64 THEN Zero64
    ELSE [i \in 1..4 |-> IF i = (k \div 16) + 1 THEN 2^(k % 16) ELSE 0]

\* x * c on an int64 (c a small non-negative constant), wrapping at 2^64.
MulSmall(x, c) ==
    LET t1 == x[1] * c
        t2 == x[2] * c + (t1 \div Base)
        t3 == x[3] * c + (t2 \div Base)
        t4 == x[4] * c + (t3 \div Base)
    IN  <<t1 % Base, t2 % Base, t3 % Base, t4 % Base>>

\* x \div d for a non-negative int64 x and a small positive d.
DivSmall(x, d) ==
    LET c4 == x[4]
        c3 == (c4 % d) * Base + x[3]
        c2 == (c3 % d) * Base + x[2]
        c1 == (c2 % d) * Base + x[1]
    IN  <<c1 \div d, c2 \div d, c3 \div d, c4 \div d>>

\* The sign bit of an int64.
IsNeg(x) == x[4] >= 2^15

\* a > b for two non-negative int64 values.
GtNonNeg(a, b) ==
    \E i \in 1..4 : a[i] > b[i] /\ \A j \in (i+1)..4 : a[j] = b[j]

\* a > b on int64 (signed).
Gt64(a, b) ==
    IF IsNeg(a) /= IsNeg(b) THEN IsNeg(b) ELSE GtNonNeg(a, b)

\* 5 * time.Second in nanoseconds: 5000000000 = 1 * 2^32 + 10757 * 2^16 + 61952.
FiveSeconds == <<61952, 10757, 1, 0>>

\* A duration of at most a few seconds, in whole milliseconds.
Millis(d) ==
    LET q == DivSmall(DivSmall(d, 1000), 1000) IN q[1] + q[2] * Base

(***************************************************************************)
(* Strings as sequences of characters.                                     *)
(***************************************************************************)
HasPrefix(s, p) == Len(s) >= Len(p) /\ SubSeq(s, 1, Len(p)) = p

TrimPrefix(s, p) == IF HasPrefix(s, p) THEN SubSeq(s, Len(p) + 1, Len(s)) ELSE s

IsSpace(c) == c \in {" ", "\t", "\n"}

RECURSIVE TrimLeft(_)
TrimLeft(s) == IF s /= <<>> /\ IsSpace(Head(s)) THEN TrimLeft(Tail(s)) ELSE s

RECURSIVE TrimRight(_)
TrimRight(s) ==
    IF s /= <<>> /\ IsSpace(s[Len(s)]) THEN TrimRight(SubSeq(s, 1, Len(s) - 1)) ELSE s

TrimSpace(s) == TrimRight(TrimLeft(s))

sALLOW == <<"A", "L", "L", "O", "W">>
sDISALLOW == <<"D", "I", "S", "A", "L", "L", "O", "W">>
sDISALLOWColon == sDISALLOW \o <<":">>

\* Stands for the literal reason of admission.go line 137.
DefaultReason == <<"#default-reason">>

\* The verdict strings a judgment response may carry in message.content.
VerdictHeads ==
    { <<>>, sALLOW, sDISALLOW, <<" ">> \o sALLOW, <<"\n">> \o sDISALLOW,
      <<"a", "l", "l", "o", "w">>, <<"D", "I", "S">>, <<"N", "O">> }

VerdictTails ==
    { <<>>, <<" ">>, <<"E", "D">>, <<" ", "x">>, <<":">>, <<":", " ", "\t">>,
      <<":", "x">>, <<":", " ", "x", " ", "y", " ">> }

Verdicts == { h \o t : h \in VerdictHeads, t \in VerdictTails }

\* The verdict strings the judgment service returns to a handled request.
VerdictSample ==
    { <<>>, sALLOW, sDISALLOW, sDISALLOWColon,
      sDISALLOW \o <<":", " ", "x", " ", "y", " ">>, <<"N", "O">> }

(***************************************************************************)
(* Response streams.  A stream is a sequence of tokens, each standing for   *)
(* a run of bytes: "{" "}" "," ":" are themselves, "SP" is a space, "NL" a *)
(* newline, "KD" the key "done" in quotes, "T" and "F" the literals true   *)
(* and false, "Ma" and "Mb" the member "message":{"content":"a"} (or "b"), *)
(* "Mx" the member "message":{"role":"assistant"} and "X" bytes that are   *)
(* no JSON.  A write may end between any two tokens.                       *)
(***************************************************************************)
\* The lines a backend sends.
LineA == <<"{", "Ma", ",", "KD", ":", "F", "}", "NL">>
LineB == <<"{", "Mb", ",", "KD", ":", "T", "}", "NL">>
LineNoContent == <<"{", "Mx", "}", "NL">>
LineDone == <<"{", "KD", ":", "T", "}", "NL">>
LineDoneSpace == <<"{", "KD", ":", "SP", "T", "}", "NL">>
LineDoneWide == <<"{", "KD", "SP", ":", "T", "}", "NL">>
LineJunk == <<"X", "NL">>

Lines == {LineA, LineB, LineNoContent, LineDone, LineDoneSpace, LineDoneWide, LineJunk}

\* The lines the backend of a handled request sends.
BackendLineSet == {LineA, LineB, LineDoneWide, LineJunk}

RECURSIVE Flatten(_)
Flatten(ls) == IF ls = <<>> THEN <<>> ELSE Head(ls) \o Flatten(Tail(ls))

\* The bodies of at most n lines of the set L.
Bodies(L, n) == { Flatten(ls) : ls \in UNION { [1..k -> L] : k \in 0..n } }

\* bytes.Contains(s, pat).
Contains(s, pat) ==
    \E i \in 1..(Len(s) - Len(pat) + 1) : SubSeq(s, i, i + Len(pat) - 1) = pat

\* bytes.Split(s, "\n").
RECURSIVE Split(_)
Split(s) ==
    IF \A i \in 1..Len(s) : s[i] /= "NL" THEN <<s>>
    ELSE LET i == CHOOSE k \in 1..Len(s) : s[k] = "NL" /\ \A j \in 1..(k-1) : s[j] /= "NL"
         IN  <<SubSeq(s, 1, i - 1)>> \o Split(SubSeq(s, i + 1, Len(s)))

IsMsg(t) == t \in {"Ma", "Mb", "Mx"}

\* The members of a JSON object, separated by commas.
RECURSIVE FieldList(_)
FieldList(f) ==
    IF f = <<>> THEN FALSE
    ELSE IF IsMsg(f[1])
    THEN Len(f) = 1 \/ (Len(f) >= 3 /\ f[2] = "," /\ FieldList(SubSeq(f, 3, Len(f))))
    ELSE IF Len(f) >= 3 /\ f[1] = "KD" /\ f[2] = ":" /\ f[3] \in {"T", "F"}
    THEN Len(f) = 3 \/ (Len(f) >= 5 /\ f[4] = "," /\ FieldList(SubSeq(f, 5, Len(f))))
    ELSE FALSE

\* json.Unmarshal of a line into a map succeeds: the line is one JSON object
\* (white space between its tokens is skipped).
Unmarshals(line) ==
    LET t == SelectSeq(line, LAMBDA x : x /= "SP")
    IN  /\ Len(t) >= 2
        /\ t[1] = "{"
        /\ t[Len(t)] = "}"
        /\ (Len(t) = 2 \/ FieldList(SubSeq(t, 2, Len(t) - 1)))

\* message.content of a parsed line when it is a string, else the empty string
\* (of a repeated key the last member counts).
MessageContent(line) ==
    LET ms == SelectSeq(line, IsMsg)
    IN  IF ms = <<>> THEN <<>>
        ELSE IF ms[Len(ms)] = "Ma" THEN <<"a">>
        ELSE IF ms[Len(ms)] = "Mb" THEN <<"b">>
        ELSE <<>>

\* The top-level done member of a parsed line is the boolean true.
DoneTrue(line) ==
    LET t == SelectSeq(line, LAMBDA x : x \in {"T", "F"})
    IN  t /= <<>> /\ t[Len(t)] = "T"

DonePattern == <<"KD", ":", "T">>
DonePatternSpace == <<"KD", ":", "SP", "T">>

\* The paths requests are drawn with, and the tests the code makes on them.
Paths == {"/api/chat", "/api/generate", "/v1/api/chat", "/other"}

ContainsApiChat(path) == path \in {"/api/chat", "/v1/api/chat"}

\* streamCollector.getAccumulatedContent
RECURSIVE ContentOf(_)
ContentOf(ls) ==
    IF ls = <<>> THEN <<>>
    ELSE (IF Head(ls) /= <<>> /\ Unmarshals(Head(ls)) THEN MessageContent(Head(ls)) ELSE <<>>)
         \o ContentOf(Tail(ls))

\* A variant of getAccumulatedContent that reads the last line only.
GetContentLastOnly(accumulated) ==
    LET ls == Split(accumulated)
    IN  ContentOf(<<ls[Len(ls)]>>)

getAccumulatedContent(accumulated) == ContentOf(Split(accumulated))

(***************************************************************************)
(* State.                                                                  *)
(***************************************************************************)
VARIABLES
    entry,        \* which entry point this run exercises: "checker" (CheckContent
                  \* called directly), "collector" (streamCollector.Write called
                  \* directly) or "pipeline" (handleRequest)
    \* OllamaChecker (admission.go)
    cfgEnabled,   \* config.Enabled
    maxRetries,   \* config.MaxRetries
    cfgTimeout,   \* config.Timeout, in seconds
    ccPc,         \* position in CheckContent: "idle", "loop", "after", "returned"
    retry,        \* the loop variable of CheckContent
    result,       \* the string the last doRequest returned
    err,          \* the error the last doRequest returned, "nil" if none
    errKinds,     \* the kinds of error the doRequest calls returned so far
    ccLog,        \* what CheckContent did, in order: doRequest calls and sleeps
    ccRet,        \* what CheckContent returned
    ctxDone,      \* the context handed to CheckContent is cancelled or expired
    elapsed,      \* milliseconds since the context of the check was made (kept
                  \* when that context has a deadline)
    cuts,         \* after how many milliseconds a timeout or deadline ended an
                  \* attempt that the judgment service did not answer
    \* ELKLogger (logger.go)
    logger,       \* "nil" (no logger), "disabled" or "enabled"
    sink,         \* the documents sent to the index, in order
    callers,      \* the requests whose handlers have yet to call LogRequest
    \* streamCollector (proxy.go)
    scReqID, scPath, scModel, scAccumulated,
    pending,      \* the response bytes not yet written
    \* OllamaProxy.handleRequest (proxy.go)
    admChecker,   \* op.admChecker is not nil
    req,          \* the request: method, path, Content-Type, body document and
                  \* whether reading the body fails
    rBody,        \* r.Body: the bytes it yields and whether reading them fails
    pc,           \* position in handleRequest
    reqID,        \* the request id, "" when the request is not logged
    verdict,      \* allowed, reason, err as enforceAdmissionCheck returned them
    client,       \* the status and body handleRequest itself wrote to the client
    clientBytes,  \* the backend response bytes written to the client
    forwards,     \* the number of proxy.ServeHTTP calls
    sent,         \* the request body the backend received
    checked,      \* the text handed to CheckContent
    tee,          \* the response is written through the stream collector
    clock         \* time.Now().UnixNano()

checkerVars == <<cfgEnabled, maxRetries, cfgTimeout, ccPc, retry, result, err, errKinds,
                 ccLog, ccRet, ctxDone, elapsed, cuts>>

collectorVars == <<scReqID, scPath, scModel, scAccumulated>>

pipeVars == <<admChecker, req, rBody, pc, reqID, verdict, client, forwards, sent,
              checked, tee, clock>>

vars == <<entry, checkerVars, logger, sink, callers, collectorVars, pending, pipeVars,
          clientBytes>>

NoRet == [allowed |-> TRUE, reason |-> <<>>, err |-> "none"]

(***************************************************************************)
(* OllamaChecker.CheckContent and doRequest.                               *)
(***************************************************************************)
\* The errors of doRequest: "transport" (client.Do or the read of the response
\* body fails), "status" (a status other than 200), "parse" (the body of a 200
\* response is not the expected JSON).
ErrKinds == {"transport", "status", "parse"}

\* What one doRequest call returns: an error, or message.content of the response.
\* A request on a finished context fails in client.Do.
doRequest(done) ==
    IF done THEN {[err |-> "transport", content |-> <<>>]}
    ELSE {[err |-> k, content |-> <<>>] : k \in ErrKinds}
         \cup {[err |-> "nil", content |-> v] :
                   v \in IF entry = "checker" THEN Verdicts ELSE VerdictSample}

\* backoffTime of retry number r, in nanoseconds (int64): 500 * (1 << r)
\* milliseconds, at most five seconds.
Backoff(r) ==
    LET b == MulSmall(MulSmall(MulSmall(Shl1(r), 500), 1000), 1000)
    IN  IF Gt64(b, FiveSeconds) THEN FiveSeconds ELSE b

\* time.Sleep(d) returns at once for d <= 0; the time slept, in milliseconds.
Sleep(d) == IF IsNeg(d) THEN 0 ELSE Millis(d)

\* A variant of LoopGuard that lets the loop run once more.
LoopGuardOneMore(r, max) == r <= max + 1

\* The loop condition and the retry condition of CheckContent.
LoopGuard(r, max) == r <= max

\* The smallest client timeout NewOllamaChecker accepts, in seconds.
TimeoutFloor == 30

\* The timeout of the checker's HTTP client, in seconds, for a configured
\* timeout t.
ClientTimeout(t) == IF t < TimeoutFloor THEN TimeoutFloor ELSE t

\* The timeout of the context enforceAdmissionCheck makes for a check, in
\* seconds.
CheckDeadline == 10

NoDeadline == -1

\* The deadline of the context CheckContent is called with, in milliseconds
\* after the context was made: the handler's context has one, the context of
\* a direct caller has none.
CtxDeadline == IF entry = "pipeline" THEN CheckDeadline * 1000 ELSE NoDeadline

\* The context has expired at time el.
Expired(el) == CtxDeadline /= NoDeadline /\ el >= CtxDeadline

\* How long client.Do waits when the service does not answer an attempt begun
\* at time el: until the client timeout or the deadline of the context,
\* whichever comes first.
Cutoff(el) ==
    LET t == ClientTimeout(cfgTimeout) * 1000
    IN  IF CtxDeadline /= NoDeadline /\ CtxDeadline - el < t THEN CtxDeadline - el ELSE t

\* The time after d more milliseconds.
Later(el, d) == IF CtxDeadline = NoDeadline THEN el ELSE el + d

\* Whether a failed attempt is retried (any error of doRequest is).
Retryable(e) == e /= "nil"

\* A variant of ParseVerdict that returns the reason as it finds it, empty or not.
ParseVerdictNoDefault(res) ==
    IF HasPrefix(res, sALLOW) THEN [allowed |-> TRUE, reason |-> <<>>, err |-> "nil"]
    ELSE IF HasPrefix(res, sDISALLOW)
         THEN [allowed |-> FALSE, reason |-> TrimSpace(TrimPrefix(res, sDISALLOWColon)),
               err |-> "nil"]
         ELSE [allowed |-> TRUE, reason |-> <<>>, err |-> "nil"]

\* A variant of ParseVerdict that denies whatever does not start with ALLOW.
ParseVerdictStrict(res) ==
    IF HasPrefix(res, sALLOW) THEN [allowed |-> TRUE, reason |-> <<>>, err |-> "nil"]
    ELSE [allowed |-> FALSE, reason |-> DefaultReason, err |-> "nil"]

\* The analysis of a verdict string (the end of CheckContent).
ParseVerdict(res) ==
    IF HasPrefix(res, sALLOW) THEN [allowed |-> TRUE, reason |-> <<>>, err |-> "nil"]
    ELSE IF HasPrefix(res, sDISALLOW)
         THEN LET reason == TrimSpace(TrimPrefix(res, sDISALLOWColon))
              IN  [allowed |-> FALSE,
                   reason |-> IF reason = <<>> THEN DefaultReason ELSE reason,
                   err |-> "nil"]
         ELSE [allowed |-> TRUE, reason |-> <<>>, err |-> "nil"]

\* A variant of FailOpen that denies the request when the check failed.
FailClosed(e) == [allowed |-> FALSE, reason |-> DefaultReason, err |-> e]

\* The result of CheckContent when the last attempt failed: allowed, with the
\* error.
FailOpen(e) == [allowed |-> TRUE, reason |-> <<>>, err |-> e]

\* CheckContent is entered: a disabled checker returns at once.
CheckContentEnter ==
    /\ ccPc = "idle"
    /\ retry' = 0
    /\ IF ~cfgEnabled
       THEN /\ ccPc' = "returned"
            /\ ccRet' = [allowed |-> TRUE, reason |-> <<>>, err |-> "nil"]
       ELSE /\ ccPc' = IF LoopGuard(0, maxRetries) THEN "loop" ELSE "after"
            /\ ccRet' = ccRet
    /\ UNCHANGED <<cfgEnabled, maxRetries, cfgTimeout, result, err, errKinds, ccLog,
                   ctxDone, elapsed, cuts>>

\* One iteration of the retry loop: doRequest, and the backoff sleep after a
\* failure that is not the last.  The service answers the attempt at once, or
\* it does not answer and client.Do fails when the timeout or deadline ends the
\* attempt.  time.Sleep does not look at the context.
Attempt ==
    /\ ccPc = "loop"
    /\ \E r \in doRequest(ctxDone), answers \in BOOLEAN :
        LET wait == IF answers THEN 0 ELSE Cutoff(elapsed)
            nap == IF Retryable(r.err) /\ retry < maxRetries
                   THEN Sleep(Backoff(retry)) ELSE 0
        IN  /\ ~answers => ~ctxDone /\ r.err = "transport"
            /\ result' = r.content
            /\ err' = r.err
            /\ cuts' = IF answers THEN cuts ELSE cuts \cup {wait}
            /\ elapsed' = Later(elapsed, wait + nap)
            /\ ctxDone' = (ctxDone \/ Expired(Later(elapsed, wait + nap)))
            /\ IF ~Retryable(r.err)
               THEN /\ ccPc' = "after"
                    /\ retry' = retry
                    /\ errKinds' = errKinds
                    /\ ccLog' = Append(ccLog, [op |-> "call"])
               ELSE /\ errKinds' = errKinds \cup {r.err}
                    /\ ccLog' = IF retry < maxRetries
                                THEN ccLog \o <<[op |-> "call"],
                                                [op |-> "sleep", ms |-> nap]>>
                                ELSE Append(ccLog, [op |-> "call"])
                    /\ retry' = retry + 1
                    /\ ccPc' = IF LoopGuard(retry + 1, maxRetries) THEN "loop" ELSE "after"
    /\ UNCHANGED <<cfgEnabled, maxRetries, cfgTimeout, ccRet>>

\* After the loop: fail open on an error, else analyse the verdict.
CheckContentReturn ==
    /\ ccPc = "after"
    /\ ccRet' = IF err /= "nil" THEN FailOpen(err) ELSE ParseVerdict(result)
    /\ ccPc' = "returned"
    /\ UNCHANGED <<cfgEnabled, maxRetries, cfgTimeout, retry, result, err, errKinds, ccLog,
                   ctxDone, elapsed, cuts>>

\* The context of the call ends (cancellation or deadline) while the check runs.
CtxCancel ==
    /\ ccPc = "loop"
    /\ ~ctxDone
    /\ ctxDone' = TRUE
    /\ UNCHANGED <<cfgEnabled, maxRetries, cfgTimeout, ccPc, retry, result, err, errKinds,
                   ccLog, ccRet, elapsed, cuts>>

(***************************************************************************)
(* ELKLogger.                                                              *)
(***************************************************************************)
\* LogResponse: the sink after the call.  Nothing is sent by a disabled logger
\* or for the empty request id.
LogResponse(snk, id, src, body) ==
    IF logger /= "enabled" \/ id = "" THEN snk
    ELSE Append(snk, [type |-> "response", id |-> id, src |-> src, body |-> body])

\* A variant of SendRequestLog that returns without sending the document.
SendNothing(snk, id, body, ok) == snk

\* The end of LogRequest: the request document is sent to the index (ok is
\* whether the index took it; LogRequest only logs a failure).
SendRequestLog(snk, id, body, ok) ==
    Append(snk, [type |-> "request", id |-> id, body |-> body, ok |-> ok])

\* The requests that are handled at the same time, named by their bodies.
Callers == {"r1", "r2"}

\* time.Now().UnixNano() as LogRequest reads it: the clock moves on between two
\* readings, or it does not.
Tick ==
    /\ entry = "logger"
    /\ clock < MaxClock
    /\ clock' = clock + 1
    /\ UNCHANGED <<entry, checkerVars, logger, sink, callers, collectorVars, pending,
                   admChecker, req, rBody, pc, reqID, verdict, client, forwards, sent,
                   checked, tee, clientBytes>>

\* The handler of one of the requests calls LogRequest: the request id is the
\* reading of the clock, and the request document is sent under it.
LogRequestCall ==
    /\ entry = "logger"
    /\ \E c \in callers, ok \in BOOLEAN :
        /\ callers' = callers \ {c}
        /\ sink' = SendRequestLog(sink, ToString(clock), c, ok)
    /\ UNCHANGED <<entry, checkerVars, logger, collectorVars, pending, pipeVars,
                   clientBytes>>

(***************************************************************************)
(* streamCollector.                                                        *)
(***************************************************************************)
\* The record Write logs for a chat path: the combined response.
CombinedResponse(accumulated, model) ==
    [content |-> getAccumulatedContent(accumulated), model |-> model, done |-> TRUE]

\* Write sees the end of the stream in the bytes of this call.
SeesDone(p) == Contains(p, DonePattern) \/ Contains(p, DonePatternSpace)

\* streamCollector.Write(p): the sink after the call.
CollectorWrite(snk, p) ==
    LET acc == scAccumulated \o p
    IN  IF SeesDone(p)
        THEN IF ContainsApiChat(scPath)
             THEN LogResponse(snk, scReqID, "collector", CombinedResponse(acc, scModel))
             ELSE LogResponse(snk, scReqID, "collector", acc)
        ELSE snk

\* A caller writes the next bytes of a stream to a collector.
Write ==
    /\ entry = "collector"
    /\ pending /= <<>>
    /\ \E n \in 1..Len(pending) :
        LET p == SubSeq(pending, 1, n)
        IN  /\ scAccumulated' = scAccumulated \o p
            /\ sink' = CollectorWrite(sink, p)
            /\ pending' = SubSeq(pending, n + 1, Len(pending))
    /\ UNCHANGED <<entry, checkerVars, logger, callers, scReqID, scPath, scModel, pipeVars,
                   clientBytes>>

(***************************************************************************)
(* Requests.                                                               *)
(***************************************************************************)
\* The body documents requests are drawn with: "" is the empty body, "text" is
\* no JSON, the others are JSON objects with or without the members stream and
\* model.  "partial" is what a read that fails has returned.
Docs == {"", "text", "json", "json-stream", "json-stream-model"}

IsJSON(d) == d \in {"json", "json-stream", "json-stream-model"}

\* requestData["stream"] is the boolean true.
StreamTrue(d) == d \in {"json-stream", "json-stream-model"}

\* requestData["model"] is a string.
HasModel(d) == d = "json-stream-model"

\* io.ReadAll of a body: the bytes read and whether the read failed.
ReadAll(rb) == [data |-> IF rb.err THEN "partial" ELSE rb.data, err |-> rb.err]

\* io.NopCloser(bytes.NewBuffer(b)): a body that yields b.
NewBuffer(b) == [data |-> b, err |-> FALSE]

\* A body whose read has failed.
Failed == [data |-> "", err |-> TRUE]

NoClient == [status |-> 0, type |-> "", body |-> "none"]

NoVerdict == [allowed |-> TRUE, reason |-> <<>>, err |-> "none"]

(***************************************************************************)
(* OllamaProxy.handleRequest.                                              *)
(***************************************************************************)
\* A variant of CreateDeniedResponse that leaves the reason out of the message.
CreateDeniedResponseBare(reason, path) ==
    [model |-> "phi3:3.8b", created_at |-> "now",
     message |-> [role |-> "assistant", content |-> <<"#sorry-prefix">>],
     done_reason |-> "stop", done |-> TRUE,
     total_duration |-> "8000000000", load_duration |-> "15000000",
     prompt_eval_count |-> "15", prompt_eval_duration |-> "9000000",
     eval_count |-> "400", eval_duration |-> "7900000000"]

\* CreateDeniedResponse(reason, path): the response as json.Marshal writes it,
\* "#sorry-prefix" standing for the fixed text before the reason.
CreateDeniedResponse(reason, path) ==
    [model |-> "phi3:3.8b", created_at |-> "now",
     message |-> [role |-> "assistant", content |-> <<"#sorry-prefix">> \o reason],
     done_reason |-> "stop", done |-> TRUE,
     total_duration |-> "8000000000", load_duration |-> "15000000",
     prompt_eval_count |-> "15", prompt_eval_duration |-> "9000000",
     eval_count |-> "400", eval_duration |-> "7900000000"]

\* A variant of RestoreBody that leaves the body read to its end.
LeaveConsumed(b) == [data |-> "", err |-> FALSE]

\* LogRequest puts the bytes it has read back as the body of the request.
RestoreBody(b) == NewBuffer(b)

\* The request is logged: LogRequest returns the request id, after reading (and
\* restoring) a JSON body and sending the request document to the index.
LogRequestStep ==
    /\ entry = "pipeline"
    /\ pc = "start"
    /\ pc' = "gate"
    /\ IF logger /= "enabled"
       THEN UNCHANGED <<reqID, rBody, sink>>
       ELSE LET rd == IF req.ctype = "application/json" THEN ReadAll(rBody)
                      ELSE [data |-> "", err |-> TRUE]
            IN  /\ reqID' = ToString(clock)
                /\ rBody' = IF req.ctype /= "application/json" THEN rBody
                            ELSE IF rd.err THEN Failed ELSE RestoreBody(rd.data)
                /\ \E ok \in BOOLEAN :
                     sink' = SendRequestLog(sink, ToString(clock),
                                            IF rd.err THEN "" ELSE rd.data, ok)
    /\ UNCHANGED <<entry, checkerVars, logger, callers, collectorVars, pending, admChecker, req,
                   verdict, client, forwards, sent, checked, tee, clock, clientBytes>>

\* A variant of NeedsCheck that checks the chat and generate paths only.
NeedsCheckApiOnly ==
    admChecker /\ req.method = "POST" /\ req.path \in {"/api/chat", "/api/generate"}

\* A variant of NeedsCheck that does not look at the checker.
NeedsCheckAnyPost == req.method = "POST"

\* The admission check applies to a POST request when a checker is configured.
NeedsCheck == admChecker /\ req.method = "POST"

\* A variant of ReadErrorNext that goes on to forward the request.
ReadErrorFallsThrough == "forward"

\* Where handleRequest goes after it has answered a read error with 400: it
\* returns.
ReadErrorNext == "done"

\* The body is read for the check: a read error ends the request with 400, else
\* enforceAdmissionCheck reads the restored body and calls CheckContent on it.
AdmissionStart ==
    /\ entry = "pipeline"
    /\ pc = "gate"
    /\ NeedsCheck
    /\ LET rd == ReadAll(rBody)
       IN  IF rd.err
           THEN /\ client' = [status |-> 400, type |-> "text/plain", body |-> "read error"]
                /\ rBody' = Failed
                /\ pc' = ReadErrorNext
                /\ UNCHANGED <<checkerVars, checked>>
           ELSE /\ rBody' = NewBuffer(rd.data)
                /\ checked' = rd.data
                /\ CheckContentEnter
                /\ pc' = "checking"
                /\ UNCHANGED client
    /\ UNCHANGED <<entry, logger, callers, sink, collectorVars, pending, admChecker, req, reqID,
                   verdict, forwards, sent, tee, clock, clientBytes>>

\* No check applies: the request goes on to be forwarded.
AdmissionSkip ==
    /\ entry = "pipeline"
    /\ pc = "gate"
    /\ ~NeedsCheck
    /\ pc' = "forward"
    /\ UNCHANGED <<entry, checkerVars, logger, callers, sink, collectorVars, pending, admChecker,
                   req, rBody, reqID, verdict, client, forwards, sent, checked, tee,
                   clock, clientBytes>>

\* LogAdmission(reqID, allowed, reason): the sink after the call.
LogAdmission(snk, id, allowed, reason) ==
    Append(snk, [type |-> "admission", id |-> id, allowed |-> allowed, reason |-> reason])

\* A variant of Denies that lets every request through.
DeniesNever(v) == FALSE

\* The check's result denies the request: no error, and not allowed.
Denies(v) == v.err = "nil" /\ ~v.allowed

\* CheckContent has returned (its locals and the context of the call are gone):
\* the result is logged, and the request is denied (the denial response is
\* written) or goes on to be forwarded.
AdmissionDone ==
    /\ entry = "pipeline"
    /\ pc = "checking"
    /\ ccPc = "returned"
    /\ verdict' = ccRet
    /\ ccPc' = "idle"
    /\ retry' = 0
    /\ result' = <<>>
    /\ err' = "nil"
    /\ errKinds' = {}
    /\ ccLog' = <<>>
    /\ ccRet' = NoRet
    /\ ctxDone' = FALSE
    /\ elapsed' = 0
    /\ cuts' = {}
    /\ sink' = IF logger /= "nil" /\ reqID /= ""
               THEN LogAdmission(sink, reqID, ccRet.allowed, ccRet.reason)
               ELSE sink
    /\ IF Denies(ccRet)
       THEN /\ client' = [status |-> 200, type |-> "application/json",
                          body |-> CreateDeniedResponse(ccRet.reason, req.path)]
            /\ pc' = "done"
       ELSE /\ client' = client
            /\ pc' = "forward"
    /\ UNCHANGED <<entry, cfgEnabled, maxRetries, cfgTimeout, logger, callers,
                   collectorVars, pending, admChecker, req, rBody, reqID, forwards, sent,
                   checked, tee, clock, clientBytes>>

\* The request asks for a streamed response: a POST with the JSON content type
\* whose body parses and has stream set to true.
IsStreamRequest(body) ==
    /\ req.method = "POST"
    /\ req.ctype = "application/json"
    /\ IsJSON(body)
    /\ StreamTrue(body)

\* The model name given to the collector.
ModelName(body) ==
    IF req.path \in {"/api/chat", "/api/generate"} /\ IsJSON(body) /\ HasModel(body)
    THEN "m1" ELSE "unknown"

\* The response is written through a stream collector.
Taps(stream) == stream /\ reqID /= ""

\* proxy.ModifyResponse logs the response: the request context carries a
\* request id and there is a logger.
HookLogs(id) == id /= "" /\ logger /= "nil"

\* The request is forwarded: proxy.ServeHTTP sends it to the backend, and the
\* ModifyResponse hook reads the whole response and logs it before any of it
\* is copied to the client (whose status is the one written first).
Forward ==
    /\ entry = "pipeline"
    /\ pc = "forward"
    /\ LET sniff == req.method = "POST" /\ req.ctype = "application/json"
           rd == ReadAll(rBody)
           body == IF sniff THEN NewBuffer(rd.data) ELSE rBody
           stream == sniff /\ IsStreamRequest(rd.data)
       IN  /\ rBody' = body
           /\ sent' = ReadAll(body)
           /\ tee' = Taps(stream)
           /\ IF Taps(stream)
              THEN /\ scReqID' = reqID
                   /\ scPath' = req.path
                   /\ scModel' = ModelName(rd.data)
                   /\ scAccumulated' = <<>>
              ELSE UNCHANGED collectorVars
    /\ forwards' = forwards + 1
    /\ \E resp \in Bodies(BackendLineSet, BackendLines) :
        /\ sink' = IF HookLogs(reqID) THEN LogResponse(sink, reqID, "hook", resp) ELSE sink
        /\ pending' = resp
        /\ pc' = IF resp = <<>> THEN "done" ELSE "copy"
    /\ client' = IF client = NoClient
                 THEN [status |-> 200, type |-> "backend", body |-> "backend"]
                 ELSE client
    /\ UNCHANGED <<entry, checkerVars, logger, callers, admChecker, req, reqID, verdict, checked,
                   clock, clientBytes>>

\* A variant of ClientWrite in which bytes the collector cannot parse are not
\* written.
ClientWriteParsedOnly(bytes, p) == IF Contains(p, <<"X">>) THEN bytes ELSE bytes \o p

\* What the client has received after p is written to it: directly, or as the
\* first writer of the io.MultiWriter of streamResponseWriter (the collector,
\* the second writer, never returns an error).
ClientWrite(bytes, p) == bytes \o p

\* The proxy copies the next bytes of the response: to the client, and through
\* the tee to the collector.
Copy ==
    /\ entry = "pipeline"
    /\ pc = "copy"
    /\ \E n \in 1..Len(pending) :
        LET p == SubSeq(pending, 1, n)
        IN  /\ clientBytes' = ClientWrite(clientBytes, p)
            /\ IF tee
               THEN /\ scAccumulated' = scAccumulated \o p
                    /\ sink' = CollectorWrite(sink, p)
               ELSE UNCHANGED <<scAccumulated, sink>>
            /\ pending' = SubSeq(pending, n + 1, Len(pending))
            /\ pc' = IF n = Len(pending) THEN "done" ELSE "copy"
    /\ UNCHANGED <<entry, checkerVars, logger, callers, scReqID, scPath, scModel, admChecker, req,
                   rBody, reqID, verdict, client, forwards, sent, checked, tee, clock>>

(***************************************************************************)
(* Specification.                                                          *)
(***************************************************************************)
RetryValues == (-1..SmallRetries) \cup {LargeRetries}

\* The default of admission.timeout, in seconds.
DefaultTimeout == 5

\* The values config.Timeout is drawn with: the default, and one above the floor.
TimeoutValues == {DefaultTimeout, TimeoutFloor + 15}

Requests ==
    [method : {"GET", "POST"}, path : Paths,
     ctype : {"application/json", "text/plain"}, doc : Docs, bad : BOOLEAN]

InitCheckerIdle ==
    /\ ccPc = "idle"
    /\ retry = 0
    /\ result = <<>>
    /\ err = "nil"
    /\ errKinds = {}
    /\ ccLog = <<>>
    /\ ccRet = NoRet
    /\ ctxDone = FALSE
    /\ elapsed = 0
    /\ cuts = {}

InitNoRequest ==
    /\ admChecker = FALSE
    /\ req = [method |-> "", path |-> "", ctype |-> "", doc |-> "", bad |-> FALSE]
    /\ rBody = NewBuffer("")
    /\ pc = "none"
    /\ reqID = ""
    /\ verdict = NoVerdict
    /\ client = NoClient
    /\ clientBytes = <<>>
    /\ forwards = 0
    /\ sent = "none"
    /\ checked = "none"
    /\ tee = FALSE
    /\ clock = 1

InitNoCollector ==
    /\ scReqID = ""
    /\ scPath = ""
    /\ scModel = ""
    /\ scAccumulated = <<>>
    /\ pending = <<>>

\* CheckContent is called on a checker built by NewOllamaChecker.
InitChecker ==
    /\ entry = "checker"
    /\ cfgEnabled \in BOOLEAN
    /\ maxRetries \in RetryValues
    /\ cfgTimeout \in TimeoutValues
    /\ InitCheckerIdle
    /\ logger = "nil"
    /\ sink = <<>>
    /\ callers = {}
    /\ InitNoCollector
    /\ InitNoRequest

\* A stream is written to a collector built by newStreamCollector.
InitCollector ==
    /\ entry = "collector"
    /\ cfgEnabled = FALSE
    /\ maxRetries = 0
    /\ cfgTimeout = DefaultTimeout
    /\ InitCheckerIdle
    /\ logger = "enabled"
    /\ sink = <<>>
    /\ callers = {}
    /\ scReqID \in {"", "1"}
    /\ scPath \in Paths
    /\ scModel \in {"m1", "unknown"}
    /\ scAccumulated = <<>>
    /\ pending \in Bodies(Lines, MaxLines)
    /\ InitNoRequest

\* A request arrives at a proxy built by NewOllamaProxy, which builds a checker
\* only when admission control is enabled.
InitPipeline ==
    /\ entry = "pipeline"
    /\ cfgEnabled \in BOOLEAN
    /\ maxRetries \in IF cfgEnabled THEN 0..SmallRetries ELSE {0}
    /\ cfgTimeout = DefaultTimeout
    /\ InitCheckerIdle
    /\ logger \in {"nil", "disabled", "enabled"}
    /\ sink = <<>>
    /\ callers = {}
    /\ InitNoCollector
    /\ admChecker = cfgEnabled
    /\ req \in Requests
    /\ rBody = [data |-> req.doc, err |-> req.bad]
    /\ pc = "start"
    /\ reqID = ""
    /\ verdict = NoVerdict
    /\ client = NoClient
    /\ clientBytes = <<>>
    /\ forwards = 0
    /\ sent = "none"
    /\ checked = "none"
    /\ tee = FALSE
    /\ clock = 1

\* The handlers of several requests call LogRequest on one enabled logger, in
\* any order and at any reading of the clock.
InitLogger ==
    /\ entry = "logger"
    /\ cfgEnabled = FALSE
    /\ maxRetries = 0
    /\ cfgTimeout = DefaultTimeout
    /\ InitCheckerIdle
    /\ logger = "enabled"
    /\ sink = <<>>
    /\ callers = Callers
    /\ InitNoCollector
    /\ InitNoRequest

Init == InitChecker \/ InitCollector \/ InitPipeline \/ InitLogger

otherVars == <<logger, sink, callers, collectorVars, pending, pipeVars, clientBytes>>

\* A caller calls CheckContent.
CallCheckContent ==
    /\ entry = "checker"
    /\ CheckContentEnter
    /\ UNCHANGED <<entry, otherVars>>

DoAttempt == Attempt /\ UNCHANGED <<entry, otherVars>>

DoReturn == CheckContentReturn /\ UNCHANGED <<entry, otherVars>>

DoCancel == CtxCancel /\ UNCHANGED <<entry, otherVars>>

Next ==
    \/ CallCheckContent
    \/ DoAttempt
    \/ DoReturn
    \/ DoCancel
    \/ Write
    \/ LogRequestStep
    \/ AdmissionStart
    \/ AdmissionSkip
    \/ AdmissionDone
    \/ Forward
    \/ Copy
    \/ Tick
    \/ LogRequestCall

Spec == Init /\ [][Next]_vars

(***************************************************************************)
(* Properties.                                                             *)
(***************************************************************************)
\* The number of doRequest calls in a log of CheckContent.
Calls(log) == Cardinality({i \in 1..Len(log) : log[i].op = "call"})

\* The number of response documents sent to the index for a request id.
ResponseEvents(id) ==
    Cardinality({i \in 1..Len(sink) : sink[i].type = "response" /\ sink[i].id = id})

DeniedVerdict == verdict.err = "nil" /\ ~verdict.allowed

\* C1: a request whose admission check returned a denial (not allowed, no
\* error) has the synthetic denial response written to the client, and
\* proxy.ServeHTTP is never called for it.
C1_DeniedNeverForwarded ==
    (entry = "pipeline" /\ DeniedVerdict) =>
        /\ pc = "done"
        /\ forwards = 0
        /\ sent = "none"
        /\ clientBytes = <<>>
        /\ client = [status |-> 200, type |-> "application/json",
                     body |-> CreateDeniedResponse(verdict.reason, req.path)]

C1_Witness ==
    /\ entry = "pipeline"
    /\ DeniedVerdict
    /\ pc = "done"
    /\ client.status = 200
    /\ client.body.message.content = <<"#sorry-prefix", "x", " ", "y">>

\* C2: when every attempt of CheckContent has failed (the first and all
\* MaxRetries retries) it returns allowed with the error set, and the handler
\* then forwards the request: the client gets neither a denial nor an error
\* response from the handler.
C2_FailOpenForwards ==
    /\ (cfgEnabled /\ ccPc = "returned" /\ err /= "nil") =>
           /\ Calls(ccLog) = maxRetries + 1
           /\ ccRet.allowed
           /\ ccRet.err = err
    /\ (entry = "pipeline" /\ verdict.err \in ErrKinds) =>
           /\ pc \in {"forward", "copy", "done"}
           /\ client.status /= 400
           /\ client.type /= "application/json"
           /\ pc \in {"copy", "done"} => forwards = 1 /\ client.type = "backend"

C2_Witness ==
    /\ entry = "pipeline"
    /\ maxRetries = SmallRetries
    /\ verdict.err = "transport"
    /\ verdict.allowed
    /\ pc = "done"
    /\ forwards = 1

\* The response bytes end with a line that is a JSON object with done true.
EndsWithDone(bytes) ==
    LET ls == SelectSeq(Split(bytes), LAMBDA l : l /= <<>>)
    IN  ls /= <<>> /\ Unmarshals(ls[Len(ls)]) /\ DoneTrue(ls[Len(ls)])

\* C3: for a forwarded streamed request with a request id whose response ends
\* with a done=true line, exactly one response document is sent for that id
\* (by the ModifyResponse hook and the collector together), and it holds the
\* whole response.
C3_ExactlyOneResponse ==
    (entry = "pipeline" /\ pc = "done" /\ tee /\ reqID /= "" /\ EndsWithDone(clientBytes)) =>
        /\ ResponseEvents(reqID) = 1
        /\ \A i \in 1..Len(sink) :
             sink[i].type = "response" =>
                 \/ sink[i].body = clientBytes
                 \/ /\ sink[i].src = "collector"
                    /\ ContainsApiChat(scPath)
                    /\ sink[i].body = CombinedResponse(clientBytes, scModel)

\* C4: within one request the documents are sent in the order request,
\* admission, response: an admission or response document comes after the
\* request document of its id, and no response document before the admission
\* document.
C4_EventOrder ==
    entry = "pipeline" =>
        \A j \in 1..Len(sink) :
            /\ sink[j].type = "request" => j = 1
            /\ sink[j].type \in {"admission", "response"} =>
                   sink[1].type = "request" /\ sink[1].id = sink[j].id
            /\ sink[j].type = "admission" =>
                   \A i \in 1..(j - 1) : sink[i].type /= "response"

C4_Witness ==
    /\ entry = "pipeline"
    /\ Len(sink) >= 3
    /\ sink[1].type = "request"
    /\ sink[2].type = "admission"
    /\ sink[3].type = "response"

\* The wait the backoff rule gives before retry k + 1: min(500ms * 2^k, 5s).
ExpectedWait(k) == IF k >= 4 THEN 5000 ELSE 500 * 2^k

\* What CheckContent does when n attempts fail and the next succeeds.
ExpectedLog(n) ==
    [i \in 1..(2 * n + 1) |->
        IF i % 2 = 1 THEN [op |-> "call"]
        ELSE [op |-> "sleep", ms |-> ExpectedWait((i \div 2) - 1)]]

\* C5: when the judgment call fails with a transport error N times and then
\* succeeds, CheckContent makes N + 1 attempts, sleeps min(500ms * 2^k, 5s)
\* before retry k + 1 for k = 0..N-1 and at no other moment, and returns the
\* verdict of the attempt that succeeded, for every retry index.
C5_BackoffSchedule ==
    (cfgEnabled /\ ccPc \in {"after", "returned"} /\ ccLog /= <<>> /\ err = "nil"
        /\ errKinds \subseteq {"transport"}) =>
        /\ ccLog = ExpectedLog(retry)
        /\ ccPc = "returned" => ccRet.err = "nil"

\* C6: CheckContent retries only after a transport or HTTP error: an attempt
\* whose 200 response is malformed (a body that is no JSON, or a verdict that
\* is neither ALLOW nor DISALLOW) is the last attempt, and the result is
\* allowed.
C6_MalformedNotRetried ==
    cfgEnabled =>
        /\ err = "parse" => ccPc \in {"after", "returned"} /\ ccLog[Len(ccLog)].op = "call"
        /\ "parse" \in errKinds => err = "parse"
        /\ (ccPc = "returned" /\ err = "parse") => ccRet.allowed
        /\ (ccPc = "returned" /\ err = "nil" /\ ~HasPrefix(result, sALLOW)
              /\ ~HasPrefix(result, sDISALLOW)) => ccRet.allowed

\* C7: a verdict string that starts with ALLOW gives allowed whatever follows,
\* one that starts with DISALLOW gives denied, any other gives allowed; the
\* result depends on the verdict string alone.
C7_VerdictPrefix ==
    (cfgEnabled /\ ccPc = "returned" /\ err = "nil") =>
        /\ ccRet.err = "nil"
        /\ ccRet.allowed = ~(Len(result) >= 8 /\ SubSeq(result, 1, 8) = sDISALLOW)
        /\ (Len(result) >= 5 /\ SubSeq(result, 1, 5) = sALLOW) => ccRet.allowed

C7_Witness ==
    /\ entry = "checker"
    /\ ccPc = "returned"
    /\ Calls(ccLog) = 2
    /\ result = sALLOW \o <<":", " ", "x", " ", "y", " ">>
    /\ ccRet.allowed

\* The text a DISALLOW verdict carries: what follows DISALLOW and the optional
\* colon, without the white space around it.
ReasonText(res) == TrimSpace(TrimPrefix(TrimPrefix(res, sDISALLOW), <<":">>))

\* C8: for a verdict that starts with DISALLOW the reason is the text after the
\* optional colon, trimmed, and the default message when that text is empty
\* (DISALLOW: followed by nothing or white space, or DISALLOW alone).
C8_DenialReason ==
    (cfgEnabled /\ ccPc = "returned" /\ err = "nil" /\ HasPrefix(result, sDISALLOW)) =>
        ccRet.reason = IF ReasonText(result) = <<>> THEN DefaultReason
                       ELSE ReasonText(result)

\* C9: with admission control disabled CheckContent returns allowed, without
\* error and without a doRequest call, and the handler forwards every request:
\* it hands no text to a checker and denies nothing.
C9_DisabledForwardsAll ==
    ~cfgEnabled =>
        /\ ccLog = <<>>
        /\ ccPc \in {"idle", "returned"}
        /\ ccPc = "returned" => ccRet = [allowed |-> TRUE, reason |-> <<>>, err |-> "nil"]
        /\ entry = "pipeline" =>
             /\ checked = "none"
             /\ verdict = NoVerdict
             /\ client.status /= 400
             /\ client.type /= "application/json"
             /\ \A i \in 1..Len(sink) : sink[i].type /= "admission"
             /\ pc \in {"start", "gate", "forward", "copy", "done"}
             /\ pc \in {"copy", "done"} => forwards = 1 /\ client.type = "backend"

C9_Witness ==
    /\ entry = "pipeline"
    /\ ~cfgEnabled
    /\ req.method = "POST"
    /\ req.doc /= ""
    /\ pc = "done"
    /\ forwards = 1

\* message.content of one chunk of a stream, read off the chunk itself: "a" and
\* "b" for the two chunks that carry content, nothing for any other chunk (no
\* content, done only, no JSON, or cut short).
ChunkContent(chunk) ==
    IF chunk = SubSeq(LineA, 1, Len(LineA) - 1) THEN <<"a">>
    ELSE IF chunk = SubSeq(LineB, 1, Len(LineB) - 1) THEN <<"b">>
    ELSE <<>>

RECURSIVE ChunkContents(_)
ChunkContents(chunks) ==
    IF chunks = <<>> THEN <<>>
    ELSE ChunkContent(Head(chunks)) \o ChunkContents(Tail(chunks))

\* C10: for a chat path the record the collector logs has as content the
\* message.content strings of the chunks received so far, joined in the order
\* of arrival, the model the collector was built with, and done true.
C10_ChatRecord ==
    [][(ContainsApiChat(scPath) /\ scAccumulated' /= scAccumulated /\ sink' /= sink) =>
          /\ Len(sink') = Len(sink) + 1
          /\ sink'[Len(sink')].body =
                 [content |-> ChunkContents(Split(scAccumulated')),
                  model |-> scModel, done |-> TRUE]]_vars

C10_Witness ==
    /\ entry = "collector"
    /\ ContainsApiChat(scPath)
    /\ pending = <<>>
    /\ Len(sink) = 1
    /\ sink[1].body = [content |-> <<"a", "b">>, model |-> "m1", done |-> TRUE]

\* C11: whatever the sequence of Write calls on one collector, the collector
\* sends at most one record to the index: writes after the one that carried
\* the end of the stream, further done=true chunks included, send nothing.
C11_EmitsAtMostOnce ==
    entry = "collector" => Len(sink) <= 1

\* The bytes hold a JSON object (a complete line) whose done member is true.
HoldsDoneObject(bytes) ==
    \E i \in 1..Len(Split(bytes)) :
        Unmarshals(Split(bytes)[i]) /\ DoneTrue(Split(bytes)[i])

\* C12: once a stream has been written to the collector, the collector has
\* sent its record exactly when the stream holds a JSON object whose done
\* member is the boolean true, however the member is formatted and however
\* the bytes were divided into writes.
C12_DetectsDoneValue ==
    (entry = "collector" /\ scReqID /= "" /\ pending = <<>>) =>
        (Len(sink) >= 1 <=> HoldsDoneObject(scAccumulated))

\* C13: the request ids LogRequest gives to requests handled at the same time
\* are pairwise distinct, so no request document replaces another's in the
\* index (a document is stored under its request id).
C13_DistinctIds ==
    entry = "logger" =>
        \A i, j \in 1..Len(sink) : i /= j => sink[i].id /= sink[j].id

\* C14: the body of a request that has been forwarded is the original body of
\* the request, whichever of the reads for logging, admission, stream
\* detection and model name came before.
C14_BodyPreserved ==
    (entry = "pipeline" /\ forwards >= 1 /\ ~sent.err) => sent.data = req.doc

\* C15: a request whose body cannot be read is answered with 400 and is not
\* forwarded, with admission control on or off and with or without a logger.
C15_UnreadableGets400 ==
    (entry = "pipeline" /\ req.bad) =>
        /\ forwards = 0
        /\ sent = "none"
        /\ pc = "done" => client.status = 400

\* The three outcomes of a handled request.
Forwarded == forwards = 1 /\ client.status = 200 /\ client.type = "backend"

Denied ==
    /\ forwards = 0
    /\ client.status = 200
    /\ client.type = "application/json"

Rejected == forwards = 0 /\ client.status = 400 /\ client.type = "text/plain"

\* C16: a handled request ends in exactly one of three outcomes: it has been
\* forwarded exactly once, or it got the denial response (200,
\* application/json) and was not forwarded, or it got 400 and was not
\* forwarded; no request is forwarded twice.
C16_OneOutcome ==
    entry = "pipeline" =>
        /\ forwards <= 1
        /\ pc \in {"copy", "done"} =>
             Cardinality({o \in {"forwarded", "denied", "rejected"} :
                            \/ o = "forwarded" /\ Forwarded
                            \/ o = "denied" /\ Denied
                            \/ o = "rejected" /\ Rejected}) = 1

C16_Witness ==
    /\ entry = "pipeline"
    /\ pc = "done"
    /\ Rejected
    /\ req.bad
    /\ logger = "enabled"

NumericFields ==
    {"total_duration", "load_duration", "prompt_eval_count", "prompt_eval_duration",
     "eval_count", "eval_duration"}

\* C17: the denial response written to the client has the same shape for
\* every reason: role assistant, a content that contains the reason, done
\* true, done_reason stop and all six numeric members, with status 200 and
\* Content-Type application/json.
C17_DenialShape ==
    (entry = "pipeline" /\ DeniedVerdict) =>
        /\ client.status = 200
        /\ client.type = "application/json"
        /\ client.body.message.role = "assistant"
        /\ verdict.reason /= <<>>
        /\ Contains(client.body.message.content, verdict.reason)
        /\ client.body.done = TRUE
        /\ client.body.done_reason = "stop"
        /\ NumericFields \subseteq DOMAIN client.body

C17_Witness ==
    /\ entry = "pipeline"
    /\ DeniedVerdict
    /\ verdict.reason = DefaultReason
    /\ client.body.message.content = <<"#sorry-prefix">> \o DefaultReason
    /\ client.body.eval_count = "400"

\* C18: with a configured timeout below 30 seconds, no attempt that the
\* judgment service leaves unanswered is ended before 30 seconds have passed,
\* by the client timeout or by any deadline of the context.
C18_AttemptBound ==
    cfgTimeout < 30 => \A c \in cuts : c >= 30 * 1000

\* C19: every admission document carries a request id that is not empty and
\* under which a request document was sent to the index before, successfully:
\* when sending the request document failed, no admission document with its id
\* follows.
C19_AdmissionAfterRequest ==
    entry = "pipeline" =>
        \A j \in 1..Len(sink) :
            sink[j].type = "admission" =>
                /\ sink[j].id /= ""
                /\ \E i \in 1..(j - 1) :
                     sink[i].type = "request" /\ sink[i].id = sink[j].id /\ sink[i].ok

\* The outcome the request, the readability of its body and the verdict alone
\* give, at the end of the handler.
OutcomeWithoutSink ==
    IF NeedsCheck /\ req.bad THEN Rejected /\ checked = "none"
    ELSE IF NeedsCheck /\ DeniedVerdict THEN Denied /\ checked = req.doc
    ELSE /\ Forwarded
         /\ NeedsCheck => checked = req.doc
         /\ ~req.bad => sent = [data |-> req.doc, err |-> FALSE]

\* C20: without a logger or with a disabled one the request id is empty and no
\* document is sent; with a logger, whether or not the index takes the
\* documents, the request is checked on its own body and ends as the request
\* and the verdict alone decide.
C20_SinkNeverDecides ==
    entry = "pipeline" =>
        /\ logger /= "enabled" => reqID = "" /\ sink = <<>>
        /\ pc = "done" => OutcomeWithoutSink

C20_Witness ==
    /\ entry = "pipeline"
    /\ pc = "done"
    /\ logger = "enabled"
    /\ Len(sink) = 2
    /\ sink[1].type = "request"
    /\ ~sink[1].ok
    /\ req.doc = "json"
    /\ checked = "json"
    /\ Denied

\* C21: with admission control enabled a POST request, whatever its path, is
\* forwarded only after the checker has evaluated its whole body, and a
\* request of any other method is never handed to the checker and goes
\* straight to forwarding: the method alone decides.
C21_PostAlwaysChecked ==
    (entry = "pipeline" /\ cfgEnabled) =>
        /\ (req.method = "POST" /\ pc \in {"forward", "copy", "done"} /\ client.status /= 400) =>
               /\ checked = req.doc
               /\ verdict.err /= "none"
        /\ (req.method = "POST" /\ forwards >= 1) => checked = req.doc /\ verdict.err /= "none"
        /\ req.method /= "POST" =>
               /\ checked = "none"
               /\ ccLog = <<>>
               /\ verdict = NoVerdict
               /\ pc \in {"start", "gate", "forward", "copy", "done"}
               /\ pc = "done" => forwards = 1

C21_Witness ==
    /\ entry = "pipeline"
    /\ cfgEnabled
    /\ req.method = "POST"
    /\ req.path = "/other"
    /\ req.ctype = "text/plain"
    /\ req.doc = "text"
    /\ checked = "text"
    /\ pc = "done"
    /\ forwards = 1

\* The documents the ModifyResponse hook has sent.
HookBodies == {sink[i].body : i \in {j \in 1..Len(sink) : sink[j].type = "response"
                                                           /\ sink[j].src = "hook"}}

\* C22: the bytes the client has received, followed by those still to be
\* copied, are the bytes the backend sent (as the ModifyResponse hook read
\* them), with the stream collector in the path or not: the collector changes,
\* drops or reorders nothing, and bytes it cannot parse reach the client too.
C22_ClientBytesUnchanged ==
    (entry = "pipeline" /\ forwards = 1 /\ reqID /= "") =>
        /\ HookBodies = {clientBytes \o pending}
        /\ pc = "done" => pending = <<>>

C22_Witness ==
    /\ entry = "pipeline"
    /\ tee
    /\ pc = "done"
    /\ clientBytes = LineJunk
    /\ HookBodies = {LineJunk}

\* C23: no response document is sent to the index, on the request's own
\* goroutine, while response bytes that the backend has already delivered
\* wait to be handed to the client.
C23_NoWriteBeforeDelivery ==
    [][(entry = "pipeline" /\ Len(sink') > Len(sink) /\ sink'[Len(sink')].type = "response")
          => pending' = <<>>]_vars

\* C24: of the forwarded requests that are logged, each whose body is JSON with
\* stream true has its response written through a stream collector, and each
\* other one has its complete response recorded by exactly one response
\* document.
C24_TapOrBuffer ==
    (entry = "pipeline" /\ forwards = 1 /\ reqID /= "" /\ ~req.bad) =>
        /\ (IsJSON(req.doc) /\ StreamTrue(req.doc)) => tee
        /\ (~(IsJSON(req.doc) /\ StreamTrue(req.doc)) /\ pc = "done") =>
               /\ ResponseEvents(reqID) = 1
               /\ HookBodies = {clientBytes}

\* C25: once the context of the check is cancelled while the retry loop runs,
\* the attempt in flight fails and CheckContent leaves the loop: it starts no
\* further attempt and no backoff sleep.
C25_CancelEndsCheck ==
    [][(ctxDone /\ ccPc = "loop" /\ ccLog' /= ccLog) =>
          /\ ccLog' = Append(ccLog, [op |-> "call"])
          /\ ccPc' /= "loop"]_vars

\* C26: in every result of CheckContent the reason is not empty exactly when
\* allowed is false, and an error comes with allowed true; so the handler
\* writes the denial response only for a result with allowed false and no
\* error.
C26_ResultShape ==
    /\ ccPc = "returned" =>
           /\ (ccRet.reason /= <<>>) <=> ~ccRet.allowed
           /\ ccRet.err /= "nil" => ccRet.allowed
    /\ (entry = "pipeline" /\ verdict.err /= "none") =>
           /\ (verdict.reason /= <<>>) <=> ~verdict.allowed
           /\ verdict.err /= "nil" => verdict.allowed
           /\ client.type = "application/json" <=> (~verdict.allowed /\ verdict.err = "nil")

C26_Witness ==
    /\ entry = "checker"
    /\ ccPc = "returned"
    /\ result = sDISALLOWColon \o <<" ", "\t">>
    /\ ccRet = [allowed |-> FALSE, reason |-> DefaultReason, err |-> "nil"]

\* The number of backoff sleeps in a log of CheckContent.
Sleeps(log) == Cardinality({i \in 1..Len(log) : log[i].op = "sleep"})

AtLeastZero(n) == IF n < 0 THEN 0 ELSE n

\* CheckContent has been called and has not returned.
Running == ccPc \in {"loop", "after"}

\* The bounds on what a call of CheckContent does.
WithinBounds ==
    cfgEnabled =>
        /\ Calls(ccLog) <= AtLeastZero(maxRetries + 1)
        /\ Sleeps(ccLog) <= AtLeastZero(maxRetries)
        /\ Len(ccLog) = Calls(ccLog) + Sleeps(ccLog)
        /\ (maxRetries < 0 /\ ccPc = "returned") =>
               ccLog = <<>> /\ ccRet = [allowed |-> TRUE, reason |-> <<>>, err |-> "nil"]

\* C27: a call of CheckContent returns, whatever MaxRetries is and whichever
\* attempts fail, after at most MaxRetries+1 attempts and at most MaxRetries
\* backoff sleeps; with MaxRetries below zero it makes no attempt and returns
\* allowed.  Each pass of the loop is one more of a bounded number of attempts,
\* and an attempt always has an outcome.
C27_Terminates ==
    /\ WithinBounds
    /\ ccPc = "loop" => retry <= maxRetries /\ Calls(ccLog) = retry
    /\ ccPc = "loop" => doRequest(ctxDone) /= {}

C27_Witness ==
    /\ entry = "checker"
    /\ cfgEnabled
    /\ maxRetries = LargeRetries
    /\ ccPc = "returned"
    /\ Calls(ccLog) = LargeRetries + 1
    /\ Sleeps(ccLog) = LargeRetries

====
